---- MODULE Spec2Model ----
(***************************************************************************)
(* Model of bdg (src/src/index.ts): a directory-tree comparator.           *)
(*                                                                         *)
(* Strings are sequences of one-character strings, so that path joining,   *)
(* relativisation, regular-expression matching and the default sort are    *)
(* computed character by character.                                        *)
(***************************************************************************)
EXTENDS Integers, Sequences, FiniteSets, TLC

VARIABLES
    fs,              \* the filesystem: [files, dirs, order]; files and dirs are
                     \* sets of full paths, order is the order it lists names in
    ignorePatterns,  \* the caller's ignore list: strings and RegExp objects
    faulty,          \* the filesystem calls that fail: [readdir, stat], sets of paths
    last,            \* record of the last compareDirectories call, <<>> if none
    configFile,      \* .bdgrc.json in the working directory
    pc,              \* position of the program's start-up (lines 149-150)
    config,          \* what loadConfig returned, <<>> before
    diff,            \* the DiffResult handed to the reporter
    console          \* the last report: [fn, lines], <<>> before

vars == <<fs, ignorePatterns, faulty, last, configFile, pc, config, diff, console>>
comparatorVars == <<fs, ignorePatterns, faulty, last>>
startupVars == <<configFile, pc, config>>
reporterVars == <<diff, console>>

(***************************************************************************)
(* Bounds of the model.                                                    *)
(***************************************************************************)
MaxPatterns == 2     \* longest ignore list
MaxNodes == 4        \* most entries below the two roots together
MaxPaths == 2        \* longest bucket of a DiffResult handed to the reporter

Names == {"a", "b"}                  \* entry names
Roots == {<<"A">>, <<"B">>}          \* the two root directories

(***************************************************************************)
(* Strings.                                                                *)
(***************************************************************************)
\* UTF-16 code unit of a character
Code(c) ==
    CASE c = "$" -> 36
      [] c = "(" -> 40
      [] c = "/" -> 47
      [] c = "A" -> 65
      [] c = "B" -> 66
      [] c = "^" -> 94
      [] c = "a" -> 97
      [] c = "b" -> 98

\* s < t by code units, as the default comparison of Array.prototype.sort
RECURSIVE StrLess(_, _)
StrLess(s, t) ==
    IF t = <<>> THEN FALSE
    ELSE IF s = <<>> THEN TRUE
    ELSE IF Code(Head(s)) # Code(Head(t)) THEN Code(Head(s)) < Code(Head(t))
    ELSE StrLess(Tail(s), Tail(t))

\* path.join(a, b) for non-empty normalised a and b
join(a, b) == a \o <<"/">> \o b

IsPrefix(p, s) == Len(p) <= Len(s) /\ SubSeq(s, 1, Len(p)) = p

\* path.relative(from, to) for `to` at or below `from`
relative(from, to) ==
    IF to = from THEN <<>>
    ELSE SubSeq(to, Len(from) + 2, Len(to))

(***************************************************************************)
(* Regular expressions.  The dialect covers what the patterns of the model *)
(* use: literal characters, the assertions ^ and $ (no m flag), and "("    *)
(* which, never being closed, makes the source invalid.  A RegExp object   *)
(* is [isRegExp, source, global, lastIndex]; a plain pattern string is the *)
(* same record with isRegExp = FALSE.                                      *)
(***************************************************************************)
Str(source) == [isRegExp |-> FALSE, source |-> source, global |-> FALSE, lastIndex |-> 0]
Re(source, global) == [isRegExp |-> TRUE, source |-> source, global |-> global, lastIndex |-> 0]

\* does `new RegExp(source)` construct (TRUE) or throw a SyntaxError (FALSE)
IsValidSource(source) == \A k \in 1..Len(source) : source[k] # "("

\* end index of a match of source[k..] at index i of s (0-based), or -1
RECURSIVE MatchAt(_, _, _, _)
MatchAt(source, k, s, i) ==
    IF k > Len(source) THEN i
    ELSE IF source[k] = "^" THEN (IF i = 0 THEN MatchAt(source, k + 1, s, i) ELSE -1)
    ELSE IF source[k] = "$" THEN (IF i = Len(s) THEN MatchAt(source, k + 1, s, i) ELSE -1)
    ELSE IF i < Len(s) /\ s[i + 1] = source[k] THEN MatchAt(source, k + 1, s, i + 1)
    ELSE -1

\* RegExpBuiltinExec from index i: [matched, lastIndex], lastIndex being the
\* value the object's lastIndex property has afterwards
RECURSIVE RegExpExec(_, _, _)
RegExpExec(R, s, i) ==
    IF i > Len(s)
    THEN [matched |-> FALSE, lastIndex |-> IF R.global THEN 0 ELSE R.lastIndex]
    ELSE LET e == MatchAt(R.source, 1, s, i)
         IN  IF e = -1 THEN RegExpExec(R, s, i + 1)
             ELSE [matched |-> TRUE, lastIndex |-> IF R.global THEN e ELSE R.lastIndex]

\* RegExp.prototype.test: [matched, re], re being the object afterwards
test(R, s) ==
    LET x == RegExpExec(R, s, IF R.global THEN R.lastIndex ELSE 0)
    IN  [matched |-> x.matched, re |-> [R EXCEPT !.lastIndex = x.lastIndex]]

\* patterns.some(pattern => pattern.test(s)) from position k on, stopping at
\* the first match: [hit, pats]
RECURSIVE some(_, _, _)
some(pats, k, s) ==
    IF k > Len(pats) THEN [hit |-> FALSE, pats |-> pats]
    ELSE LET t == test(pats[k], s)
             after == [pats EXCEPT ![k] = t.re]
         IN  IF t.matched THEN [hit |-> TRUE, pats |-> after]
             ELSE some(after, k + 1, s)

(***************************************************************************)
(* Filesystem calls.                                                       *)
(***************************************************************************)
\* readdirSync(dir): the names in dir, in the order the filesystem lists
\* names in
readdirSync(dir) ==
    SelectSeq(fs.order, LAMBDA n : join(dir, <<n>>) \in fs.files \cup fs.dirs)

\* statSync(path).isDirectory()
isDirectory(path) == path \in fs.dirs

(***************************************************************************)
(* collectPaths (lines 48-69).  st = [pats, listed, statted] is what the   *)
(* call reads and leaves behind: the matchers' state and the filesystem    *)
(* calls attempted so far.  The result adds err (an exception left the     *)
(* call) and paths.                                                        *)
(***************************************************************************)
Threw(st) == [err |-> TRUE, paths |-> <<>>, pats |-> st.pats,
              listed |-> st.listed, statted |-> st.statted]

RECURSIVE collectPaths(_, _, _)

\* line 62: the paths of the subdirectory are pushed after those collected
\* so far, or its exception leaves the loop
pushAll(paths, sub) == IF sub.err THEN sub ELSE [sub EXCEPT !.paths = paths \o @]

\* lines 56-65 for one entry, ign being the result of the test of line 56
visit(baseDir, fullPath, relativePath, acc, ign) ==
    IF ign.hit THEN [acc EXCEPT !.pats = ign.pats]
    ELSE IF fullPath \in faulty.stat
    THEN Threw([pats |-> ign.pats, listed |-> acc.listed,
                statted |-> acc.statted \cup {fullPath}])
    ELSE IF isDirectory(fullPath)
    THEN pushAll(acc.paths,
                 collectPaths(baseDir, fullPath,
                     [pats |-> ign.pats, listed |-> acc.listed,
                      statted |-> acc.statted \cup {fullPath}]))
    ELSE [acc EXCEPT !.pats = ign.pats, !.statted = @ \cup {fullPath},
                     !.paths = Append(@, relativePath)]

\* lines 53-65 for one entry
entry(baseDir, fullPath, acc) ==
    visit(baseDir, fullPath, relative(baseDir, fullPath), acc,
          some(acc.pats, 1, relative(baseDir, fullPath)))

\* the for loop of lines 52-66 over the remaining entries of currentDir
RECURSIVE collectEntries(_, _, _, _)
collectEntries(baseDir, currentDir, entries, acc) ==
    IF entries = <<>> \/ acc.err THEN acc
    ELSE collectEntries(baseDir, currentDir, Tail(entries),
             entry(baseDir, join(currentDir, <<Head(entries)>>), acc))

\* collectPaths with a failed listing caught and taken for an empty directory
collectPathsCatching(baseDir, currentDir, st) ==
    collectEntries(baseDir, currentDir,
        IF currentDir \in faulty.readdir THEN <<>> ELSE readdirSync(currentDir),
        [err |-> FALSE, paths |-> <<>>, pats |-> st.pats,
         listed |-> st.listed \cup {currentDir}, statted |-> st.statted])

collectPaths(baseDir, currentDir, st) ==
    IF currentDir \in faulty.readdir
    THEN Threw([st EXCEPT !.listed = @ \cup {currentDir}])
    ELSE collectEntries(baseDir, currentDir, readdirSync(currentDir),
             [err |-> FALSE, paths |-> <<>>, pats |-> st.pats,
              listed |-> st.listed \cup {currentDir}, statted |-> st.statted])

(***************************************************************************)
(* compareDirectories (lines 74-96).                                       *)
(***************************************************************************)
\* sort with the call to sort left out
sortMissing(s) == s

\* Array.prototype.sort with the default comparison
RECURSIVE Insert(_, _)
Insert(x, s) ==
    IF s = <<>> THEN <<x>>
    ELSE IF StrLess(x, Head(s)) THEN <<x>> \o s
    ELSE <<Head(s)>> \o Insert(x, Tail(s))

RECURSIVE sort(_)
sort(s) == IF s = <<>> THEN <<>> ELSE Insert(s[Len(s)], sort(SubSeq(s, 1, Len(s) - 1)))

includes(s, x) == \E i \in 1..Len(s) : s[i] = x

\* lines 80-82 with a string that does not compile dropped without an error
CompileOkDropping(patterns) == TRUE

\* lines 80-82: strings are compiled, RegExp objects are passed through
CompileOk(patterns) ==
    \A k \in 1..Len(patterns) : patterns[k].isRegExp \/ IsValidSource(patterns[k].source)

regexPatterns(patterns) ==
    [k \in 1..Len(patterns) |->
        IF patterns[k].isRegExp THEN patterns[k] ELSE Re(patterns[k].source, FALSE)]

\* the caller's list after the call: its RegExp objects are the ones that
\* were tested, its strings are unchanged
CallerList(patterns, used) ==
    [k \in 1..Len(patterns) |-> IF patterns[k].isRegExp THEN used[k] ELSE patterns[k]]

NoCalls == [pats |-> <<>>, listed |-> {}, statted |-> {}]

Outcome(threw, returned, pats, c1, c2, s1, s2, listed, statted) ==
    [threw |-> threw, returned |-> returned, pats |-> pats,
     collected1 |-> c1, collected2 |-> c2, paths1 |-> s1, paths2 |-> s2,
     listed |-> listed, statted |-> statted]

\* lines 87-95 with inBoth tested against the first list instead of the second
DiffResultSelfTest(dir1, dir2, paths1, paths2) ==
    LET onlyInFirst == SelectSeq(paths1, LAMBDA path : ~includes(paths2, path))
        onlyInSecond == SelectSeq(paths2, LAMBDA path : ~includes(paths1, path))
        inBoth == SelectSeq(paths1, LAMBDA path : includes(paths1, path))
    IN  [onlyInFirst |-> [i \in 1..Len(onlyInFirst) |-> join(dir1, onlyInFirst[i])],
         onlyInSecond |-> [i \in 1..Len(onlyInSecond) |-> join(dir2, onlyInSecond[i])],
         inBoth |-> [i \in 1..Len(inBoth) |-> join(dir1, inBoth[i])]]

\* lines 87-95
DiffResult(dir1, dir2, paths1, paths2) ==
    LET onlyInFirst == SelectSeq(paths1, LAMBDA path : ~includes(paths2, path))
        onlyInSecond == SelectSeq(paths2, LAMBDA path : ~includes(paths1, path))
        inBoth == SelectSeq(paths1, LAMBDA path : includes(paths2, path))
    IN  [onlyInFirst |-> [i \in 1..Len(onlyInFirst) |-> join(dir1, onlyInFirst[i])],
         onlyInSecond |-> [i \in 1..Len(onlyInSecond) |-> join(dir2, onlyInSecond[i])],
         inBoth |-> [i \in 1..Len(inBoth) |-> join(dir1, inBoth[i])]]

\* lines 87-95 once both lists are collected, or the exception of the
\* second traversal
partition(dir1, dir2, patterns, c1, c2) ==
    IF c2.err
    THEN Outcome("FilesystemError", <<>>, CallerList(patterns, c2.pats),
                 c1.paths, <<>>, sort(c1.paths), <<>>, c2.listed, c2.statted)
    ELSE Outcome("none", <<DiffResult(dir1, dir2, sort(c1.paths), sort(c2.paths))>>,
                 CallerList(patterns, c2.pats),
                 c1.paths, c2.paths, sort(c1.paths), sort(c2.paths),
                 c2.listed, c2.statted)

\* line 85 on, c1 being what the traversal of dir1 gave
second(dir1, dir2, patterns, c1) ==
    IF c1.err
    THEN Outcome("FilesystemError", <<>>, CallerList(patterns, c1.pats),
                 <<>>, <<>>, <<>>, <<>>, c1.listed, c1.statted)
    ELSE partition(dir1, dir2, patterns, c1,
             collectPaths(dir2, dir2,
                 [pats |-> c1.pats, listed |-> c1.listed, statted |-> c1.statted]))

\* The call's outcome: threw names the exception that left the call
\* ("none" if it returned), returned is <<the DiffResult>> or <<>>, pats is
\* the caller's list afterwards; the other fields record the intermediate
\* values of the call (the two collected lists before and after the sort,
\* and the directories listed and entries stat-ed).
compareDirectories(dir1, dir2, patterns) ==
    IF ~CompileOk(patterns)
    THEN Outcome("SyntaxError", <<>>, patterns, <<>>, <<>>, <<>>, <<>>, {}, {})
    ELSE second(dir1, dir2, patterns,
             collectPaths(dir1, dir1, [NoCalls EXCEPT !.pats = regexPatterns(patterns)]))

(***************************************************************************)
(* The states a comparison starts from.                                    *)
(***************************************************************************)
Level1 == {<<n>> : n \in Names}
Level2 == {<<n, "/", m>> : n \in Names, m \in Names}

\* a tree below a root: directories at the first level, files at both
Trees ==
    {t \in [files : SUBSET (Level1 \cup Level2), dirs : SUBSET Level1] :
        /\ t.files \cap t.dirs = {}
        /\ \A p \in t.files \cap Level2 : <<p[1]>> \in t.dirs}

Size(t) == Cardinality(t.files \cup t.dirs)

Under(root, t) ==
    [files |-> {join(root, p) : p \in t.files},
     dirs |-> {root} \cup {join(root, p) : p \in t.dirs}]

Orders == {<<"a", "b">>, <<"b", "a">>}

TreePairs == {tt \in Trees \X Trees : Size(tt[1]) + Size(tt[2]) <= MaxNodes}

Filesystems ==
    {[files |-> Under(<<"A">>, tt[1]).files \cup Under(<<"B">>, tt[2]).files,
      dirs |-> Under(<<"A">>, tt[1]).dirs \cup Under(<<"B">>, tt[2]).dirs,
      order |-> o] :
        tt \in TreePairs, o \in Orders}

PatternElements ==
    {Str(<<"b", "$">>), Str(<<"(">>), Re(<<"a">>, TRUE), Re(<<"^", "b">>, FALSE)}

RECURSIVE SeqsUpTo(_, _)
SeqsUpTo(S, n) ==
    IF n = 0 THEN {<<>>}
    ELSE LET shorter == SeqsUpTo(S, n - 1)
         IN  shorter \cup {Append(s, x) : s \in shorter, x \in S}

PatternLists == SeqsUpTo(PatternElements, MaxPatterns)

NoFault == [readdir |-> {}, stat |-> {}]

\* the record of a call: its arguments and its outcome
Call(dir1, dir2, given, out) == [dir1 |-> dir1, dir2 |-> dir2, given |-> given, out |-> out]

CompareDirectories(dir1, dir2) ==
    /\ last' = <<Call(dir1, dir2, ignorePatterns,
                      compareDirectories(dir1, dir2, ignorePatterns))>>
    /\ ignorePatterns' = last'[1].out.pats
    /\ UNCHANGED <<fs, faulty, startupVars, reporterVars>>

(***************************************************************************)
(* loadConfig (lines 17-43) and the start-up of the program (149-150).     *)
(*                                                                         *)
(* A JSON value is [type, hasIgnorePaths, ignorePaths, other]: its type,   *)
(* and for an object whether it has the key ignorePaths, that key's value  *)
(* as [type, items], and whether it has another key besides.  The file is  *)
(* [exists, readable, json, value]: readable is whether readFileSync       *)
(* succeeds, json whether JSON.parse does, value what it parses to.        *)
(***************************************************************************)
JsonTypes == {"null", "boolean", "number", "string", "array", "object"}

NoItems == [type |-> "null", items |-> <<>>]

Scalar(type) ==
    [type |-> type, hasIgnorePaths |-> FALSE, ignorePaths |-> NoItems, other |-> FALSE]

Object(hasIgnorePaths, value, other) ==
    [type |-> "object", hasIgnorePaths |-> hasIgnorePaths,
     ignorePaths |-> IF hasIgnorePaths THEN value ELSE NoItems, other |-> other]

\* line 19: { ignorePaths: [] }
emptyConfig == Object(TRUE, [type |-> "array", items |-> <<>>], FALSE)

\* typeof x, x being the value of parsedConfig.ignorePaths
typeof(present, value) ==
    IF ~present THEN "undefined"
    ELSE IF value.type \in {"null", "array", "object"} THEN "object"
    ELSE value.type

\* Array.isArray(x) left out of the test of line 30
isArrayOmitted(present, value) == TRUE

\* Array.isArray(x)
isArray(present, value) == present /\ value.type = "array"

\* lines 28-34, the body of the try: threw is whether an exception left it,
\* returned whether line 31 returned parsedConfig
TryBlock(file) ==
    IF ~file.readable \/ ~file.json
    THEN [threw |-> TRUE, returned |-> FALSE]           \* readFileSync, JSON.parse
    ELSE IF file.value.type = "null"
    THEN [threw |-> TRUE, returned |-> FALSE]           \* property access on null
    ELSE LET present == file.value.type = "object" /\ file.value.hasIgnorePaths
             x == file.value.ignorePaths
         IN  [threw |-> FALSE,
              returned |-> typeof(present, x) = "object" /\ isArray(present, x)]

\* [threw, from, value]: whether an exception left loadConfig, which object
\* it returned (parsedConfig or emptyConfig) and that object's value
loadConfig(file) ==
    IF file.exists
    THEN LET t == TryBlock(file)
         IN  IF ~t.threw /\ t.returned
             THEN [threw |-> FALSE, from |-> "parsedConfig", value |-> file.value]
             ELSE [threw |-> FALSE, from |-> "emptyConfig", value |-> emptyConfig]
    ELSE [threw |-> FALSE, from |-> "emptyConfig", value |-> emptyConfig]

\* patternsToRegExp (lines 144-146): <<>> stands for the SyntaxError
patternsToRegExp(patterns) ==
    IF \A k \in 1..Len(patterns) : IsValidSource(patterns[k])
    THEN <<[k \in 1..Len(patterns) |-> Re(patterns[k], FALSE)]>>
    ELSE <<>>

PatternSources == {<<"b", "$">>, <<"(">>, <<"^", "a">>}

IgnorePathsValues ==
    {[type |-> t, items |-> <<>>] : t \in JsonTypes \ {"array"}}
        \cup {[type |-> "array", items |-> i] : i \in SeqsUpTo(PatternSources, MaxPatterns)}

JsonValues ==
    {Scalar(t) : t \in JsonTypes \ {"object"}}
        \cup {Object(FALSE, NoItems, o) : o \in BOOLEAN}
        \cup {Object(TRUE, v, o) : v \in IgnorePathsValues, o \in BOOLEAN}

NoFile == [exists |-> FALSE, readable |-> FALSE, json |-> FALSE, value |-> Scalar("null")]

ConfigFiles ==
    {NoFile,
     [exists |-> TRUE, readable |-> FALSE, json |-> FALSE, value |-> Scalar("null")],
     [exists |-> TRUE, readable |-> TRUE, json |-> FALSE, value |-> Scalar("null")]}
        \cup {[exists |-> TRUE, readable |-> TRUE, json |-> TRUE, value |-> v] :
                 v \in JsonValues}

\* line 149
LoadConfig ==
    /\ pc = "start"
    /\ config' = <<loadConfig(configFile)>>
    /\ pc' = "loaded"
    /\ UNCHANGED <<configFile, comparatorVars, reporterVars>>

\* line 150: the compiled patterns become the ignore list of the comparison
PatternsToRegExp ==
    /\ pc = "loaded"
    /\ ~config[1].threw
    /\ LET compiled == patternsToRegExp(config[1].value.ignorePaths.items)
       IN  IF compiled = <<>>
           THEN pc' = "SyntaxError" /\ UNCHANGED ignorePatterns
           ELSE pc' = "compiled" /\ ignorePatterns' = compiled[1]
    /\ UNCHANGED <<fs, faulty, last, configFile, config, reporterVars>>

(***************************************************************************)
(* The reporter: printDifferences (101-121), printCommonItems (126-139).   *)
(* A console line is [kind, path, n, m]: what is printed, the directory or *)
(* path it names, and the numbers it shows.                                *)
(***************************************************************************)
Line(kind) == [kind |-> kind, path |-> <<>>, n |-> 0, m |-> 0]
PathLine(kind, path) == [kind |-> kind, path |-> path, n |-> 0, m |-> 0]

\* path.resolve(dir) in the working directory /w
resolve(dir) == join(<<"/", "w">>, dir)

Items(paths) == [i \in 1..Len(paths) |-> PathLine(" - ", paths[i])]

\* printDifferences with the differences counted in the first list only
printDifferencesMiscount(dir1, dir2, d) ==
    <<Line("Directory Structure Comparison:"), Line("===")>> \o
    IF Len(d.onlyInFirst) = 0 /\ Len(d.onlyInSecond) = 0
    THEN <<Line("Directories are identical")>>
    ELSE (IF Len(d.onlyInFirst) > 0
          THEN <<PathLine("Only in", resolve(dir1))>> \o Items(d.onlyInFirst)
          ELSE <<>>) \o
         (IF Len(d.onlyInSecond) > 0
          THEN <<PathLine("Only in", resolve(dir2))>> \o Items(d.onlyInSecond)
          ELSE <<>>) \o
         <<[kind |-> "Found identical paths, differences", path |-> <<>>,
            n |-> Len(d.inBoth), m |-> Len(d.onlyInFirst)]>>

printDifferences(dir1, dir2, d) ==
    <<Line("Directory Structure Comparison:"), Line("===")>> \o
    IF Len(d.onlyInFirst) = 0 /\ Len(d.onlyInSecond) = 0
    THEN <<Line("Directories are identical")>>
    ELSE (IF Len(d.onlyInFirst) > 0
          THEN <<PathLine("Only in", resolve(dir1))>> \o Items(d.onlyInFirst)
          ELSE <<>>) \o
         (IF Len(d.onlyInSecond) > 0
          THEN <<PathLine("Only in", resolve(dir2))>> \o Items(d.onlyInSecond)
          ELSE <<>>) \o
         <<[kind |-> "Found identical paths, differences", path |-> <<>>,
            n |-> Len(d.inBoth), m |-> Len(d.onlyInFirst) + Len(d.onlyInSecond)]>>

printCommonItems(dir1, dir2, d) ==
    <<Line("Common Directory Structure:"), Line("===")>> \o
    IF Len(d.inBoth) = 0
    THEN <<Line("No common files or directories found")>>
    ELSE <<PathLine("Files and directories in both", resolve(dir1) \o resolve(dir2))>> \o
         Items(d.inBoth) \o
         <<[kind |-> "Found common paths", path |-> <<>>, n |-> Len(d.inBoth), m |-> 0]>>

ReportedPaths == {<<"A", "/", "a">>, <<"B", "/", "b">>}

DiffResults ==
    [onlyInFirst : SeqsUpTo(ReportedPaths, MaxPaths),
     onlyInSecond : SeqsUpTo(ReportedPaths, MaxPaths),
     inBoth : SeqsUpTo(ReportedPaths, MaxPaths)]

NoDiff == [onlyInFirst |-> <<>>, onlyInSecond |-> <<>>, inBoth |-> <<>>]

PrintDifferences ==
    /\ console' = <<[fn |-> "printDifferences",
                     lines |-> printDifferences(<<"A">>, <<"B">>, diff)]>>
    /\ UNCHANGED <<diff, comparatorVars, startupVars>>

PrintCommonItems ==
    /\ console' = <<[fn |-> "printCommonItems",
                     lines |-> printCommonItems(<<"A">>, <<"B">>, diff)]>>
    /\ UNCHANGED <<diff, comparatorVars, startupVars>>

(***************************************************************************)
(* Specifications.                                                         *)
(***************************************************************************)
ComparatorIdle ==
    /\ fs = [files |-> {}, dirs |-> Roots, order |-> <<"a", "b">>]
    /\ ignorePatterns = <<>>
    /\ faulty = NoFault
    /\ last = <<>>

StartupIdle == configFile = NoFile /\ pc = "idle" /\ config = <<>>

ReporterIdle == diff = NoDiff /\ console = <<>>

\* calls of the exported compareDirectories on a working filesystem
Init ==
    /\ fs \in Filesystems
    /\ ignorePatterns \in PatternLists
    /\ faulty = NoFault
    /\ last = <<>>
    /\ StartupIdle
    /\ ReporterIdle

Next == \E dir1 \in Roots, dir2 \in Roots : CompareDirectories(dir1, dir2)

Spec == Init /\ [][Next]_vars

\* the same calls on a filesystem where one call fails
Faults(f) ==
    {[readdir |-> {d}, stat |-> {}] : d \in f.dirs}
        \cup {[readdir |-> {}, stat |-> {p}] : p \in (f.files \cup f.dirs) \ Roots}

InitFaulty ==
    /\ fs \in Filesystems
    /\ ignorePatterns \in {<<>>} \cup {<<p>> : p \in PatternElements}
    /\ faulty \in Faults(fs)
    /\ last = <<>>
    /\ StartupIdle
    /\ ReporterIdle

SpecFaulty == InitFaulty /\ [][Next]_vars

\* the start-up of the program
InitStartup ==
    /\ ComparatorIdle
    /\ configFile \in ConfigFiles
    /\ pc = "start"
    /\ config = <<>>
    /\ ReporterIdle

NextStartup == LoadConfig \/ PatternsToRegExp

SpecStartup == InitStartup /\ [][NextStartup]_vars

\* the reporter on any DiffResult
InitReporter ==
    /\ ComparatorIdle
    /\ StartupIdle
    /\ diff \in DiffResults
    /\ console = <<>>

NextReporter == PrintDifferences \/ PrintCommonItems

SpecReporter == InitReporter /\ [][NextReporter]_vars

(***************************************************************************)
(* Properties.                                                             *)
(***************************************************************************)
Range(s) == {s[i] : i \in 1..Len(s)}

\* the paths of a bucket with the root prefix stripped
Stripped(root, paths) == [i \in 1..Len(paths) |-> relative(root, paths[i])]

HasRoot(root, paths) == \A i \in 1..Len(paths) : IsPrefix(root \o <<"/">>, paths[i])

Called == last # <<>>
Returned == last # <<>> /\ last[1].out.returned # <<>>

\* does the pattern match the string somewhere, as a regular expression
Matches(pattern, s) == \E i \in 0..Len(s) : MatchAt(pattern.source, 1, s, i) # -1

MatchesAny(patterns, s) == \E k \in 1..Len(patterns) : Matches(patterns[k], s)

\* the relative path itself and the relative paths of the directories above it
UpTo(rel) == {SubSeq(rel, 1, i) : i \in {j \in 1..Len(rel) : j = Len(rel) \/ rel[j + 1] = "/"}}

\* excluded by the patterns: the entry or a directory above it matches one
Excluded(patterns, rel) == \E q \in UpTo(rel) : MatchesAny(patterns, q)

\* relative paths of the files, and of the directories, below a root
FilesBelow(root) == {relative(root, p) : p \in {q \in fs.files : IsPrefix(root \o <<"/">>, q)}}
DirsBelow(root) == {relative(root, p) : p \in {q \in fs.dirs : IsPrefix(root \o <<"/">>, q)}}

Ascending(s) == \A i \in 1..(Len(s) - 1) : ~StrLess(s[i + 1], s[i])

\* number of positions of s holding x
Count(s, x) == Cardinality({i \in 1..Len(s) : s[i] = x})

\* C1: whenever compareDirectories returns, the buckets stripped of their
\* root are, as sets, the intersection and the two differences of the two
\* collected snapshots; they are pairwise disjoint, and onlyInFirst with
\* inBoth is snapshot1, onlyInSecond with inBoth is snapshot2.
PartitionOfSnapshots ==
    Returned =>
        LET c == last[1]
            d == c.out.returned[1]
            s1 == Range(c.out.paths1)
            s2 == Range(c.out.paths2)
            f == Range(Stripped(c.dir1, d.onlyInFirst))
            g == Range(Stripped(c.dir2, d.onlyInSecond))
            b == Range(Stripped(c.dir1, d.inBoth))
        IN  /\ HasRoot(c.dir1, d.onlyInFirst)
            /\ HasRoot(c.dir2, d.onlyInSecond)
            /\ HasRoot(c.dir1, d.inBoth)
            /\ b = s1 \cap s2
            /\ f = s1 \ s2
            /\ g = s2 \ s1
            /\ f \cap g = {} /\ f \cap b = {} /\ g \cap b = {}
            /\ f \cup b = s1
            /\ g \cup b = s2

\* a comparison of two different roots returned with a common file and a
\* file of the first root only
PartitionWitness ==
    /\ Returned
    /\ last[1].dir1 # last[1].dir2
    /\ last[1].out.returned[1].inBoth # <<>>
    /\ last[1].out.returned[1].onlyInFirst # <<>>

\* C2: a file whose relative path matches a matcher is in no bucket; a
\* directory whose relative path matches a matcher is never listed and
\* none of its descendants is in a bucket.
IgnorePruning ==
    Returned =>
        LET c == last[1]
            d == c.out.returned[1]
            pats == regexPatterns(c.given)
            buckets == Range(Stripped(c.dir1, d.onlyInFirst))
                           \cup Range(Stripped(c.dir2, d.onlyInSecond))
                           \cup Range(Stripped(c.dir1, d.inBoth))
        IN  \A root \in {c.dir1, c.dir2} :
                /\ \A rel \in FilesBelow(root) : Excluded(pats, rel) => rel \notin buckets
                /\ \A rel \in DirsBelow(root) :
                       Excluded(pats, rel) => join(root, rel) \notin c.out.listed

\* C3: from the same ignore list, compareDirectories(A, B).onlyInFirst and
\* compareDirectories(B, A).onlyInSecond hold the same relative paths, so do
\* onlyInSecond and onlyInFirst, and inBoth is the same set of relative
\* paths in both orders.
Symmetry ==
    Returned =>
        LET c == last[1]
            d == c.out.returned[1]
            swapped == compareDirectories(c.dir2, c.dir1, c.given)
        IN  /\ swapped.returned # <<>>
            /\ Stripped(c.dir1, d.onlyInFirst) =
                   Stripped(c.dir1, swapped.returned[1].onlyInSecond)
            /\ Stripped(c.dir2, d.onlyInSecond) =
                   Stripped(c.dir2, swapped.returned[1].onlyInFirst)
            /\ Range(Stripped(c.dir1, d.inBoth)) =
                   Range(Stripped(c.dir2, swapped.returned[1].inBoth))

\* C4: compareDirectories(D, D) returns empty onlyInFirst and onlyInSecond,
\* and inBoth holds exactly the files below D that no pattern excludes.
SelfComparison ==
    (Returned /\ last[1].dir1 = last[1].dir2) =>
        LET c == last[1]
            d == c.out.returned[1]
        IN  /\ d.onlyInFirst = <<>>
            /\ d.onlyInSecond = <<>>
            /\ Range(Stripped(c.dir1, d.inBoth)) =
                   {rel \in FilesBelow(c.dir1) : ~Excluded(regexPatterns(c.given), rel)}

\* C5: when a string of the ignore list is no valid regular expression, at
\* any position, the call ends with the pattern error, returns no
\* DiffResult, and has listed no directory and stat-ed no entry.
InvalidPatternBeforeTraversal ==
    (Called /\ \E k \in 1..Len(last[1].given) :
                   ~last[1].given[k].isRegExp /\ ~IsValidSource(last[1].given[k].source)) =>
        /\ last[1].out.threw = "SyntaxError"
        /\ last[1].out.returned = <<>>
        /\ last[1].out.listed = {}
        /\ last[1].out.statted = {}

\* the invalid string comes second, after a valid one, and the first root
\* has entries
InvalidPatternWitness ==
    /\ Called
    /\ Len(last[1].given) = 2
    /\ IsValidSource(last[1].given[1].source)
    /\ ~last[1].given[2].isRegExp /\ ~IsValidSource(last[1].given[2].source)
    /\ FilesBelow(last[1].dir1) # {}
    /\ last[1].out.threw = "SyntaxError"

\* the filesystem call that fails is one the traversal of this root makes
\* when no matcher carries state: the path and the directories above it
\* match no pattern
Reaches(root, patterns) ==
    \/ root \in faulty.readdir
    \/ \E p \in faulty.readdir \cup faulty.stat :
           /\ IsPrefix(root \o <<"/">>, p)
           /\ ~Excluded(patterns, relative(root, p))

\* C6: a call in which a listing or a stat failed ends with that error and
\* returns no DiffResult; a call that returned made no failing filesystem
\* call; and with matchers that carry no state, a failing directory or entry
\* that no pattern excludes, in either root, makes the call fail.
FailFast ==
    Called =>
        LET c == last[1]
            failed == (c.out.listed \cap faulty.readdir) \cup (c.out.statted \cap faulty.stat)
        IN  /\ failed # {} => c.out.threw = "FilesystemError" /\ c.out.returned = <<>>
            /\ c.out.returned # <<>> => failed = {} /\ c.out.threw = "none"
            /\ c.out.threw # "none" => c.out.returned = <<>>
            /\ ( /\ CompileOk(c.given)
                 /\ \A k \in 1..Len(c.given) : ~c.given[k].global
                 /\ \E root \in {c.dir1, c.dir2} : Reaches(root, regexPatterns(c.given)) )
               => c.out.threw = "FilesystemError"

\* a subdirectory of the first root cannot be listed, and the call failed
\* after listing the root and trying the subdirectory
FailFastWitness ==
    /\ Called
    /\ last[1].out.threw = "FilesystemError"
    /\ \E d \in faulty.readdir :
           /\ d \notin Roots
           /\ IsPrefix(last[1].dir1 \o <<"/">>, d)
           /\ d \in last[1].out.listed

\* C7 as stated: every difference report ends with the count line showing
\* inBoth.length and onlyInFirst.length + onlyInSecond.length.
AlwaysEndsWithCount ==
    (console # <<>> /\ console[1].fn = "printDifferences") =>
        LET lines == console[1].lines
            end == lines[Len(lines)]
        IN  /\ end.kind = "Found identical paths, differences"
            /\ end.n = Len(diff.inBoth)
            /\ end.m = Len(diff.onlyInFirst) + Len(diff.onlyInSecond)

\* C7 amended: a difference report ends with that count line exactly when
\* onlyInFirst or onlyInSecond is non-empty; when both are empty it ends
\* with the "identical" message and holds no count line.
EndsWithCountUnlessIdentical ==
    (console # <<>> /\ console[1].fn = "printDifferences") =>
        LET lines == console[1].lines
            end == lines[Len(lines)]
            counts == {i \in 1..Len(lines) : lines[i].kind = "Found identical paths, differences"}
        IN  IF diff.onlyInFirst = <<>> /\ diff.onlyInSecond = <<>>
            THEN end.kind = "Directories are identical" /\ counts = {}
            ELSE /\ counts = {Len(lines)}
                 /\ end.n = Len(diff.inBoth)
                 /\ end.m = Len(diff.onlyInFirst) + Len(diff.onlyInSecond)

\* a report of differences in both directions, with common paths
CountLineWitness ==
    /\ console # <<>> /\ console[1].fn = "printDifferences"
    /\ diff.onlyInFirst # <<>> /\ diff.onlyInSecond # <<>> /\ diff.inBoth # <<>>
    /\ console[1].lines[Len(console[1].lines)].m = Len(diff.onlyInFirst) + Len(diff.onlyInSecond)

HasArrayIgnorePaths(v) ==
    v.type = "object" /\ v.hasIgnorePaths /\ v.ignorePaths.type = "array"

\* C8: loadConfig never raises; it returns exactly { ignorePaths: [] } when
\* the file is absent, is not valid JSON, or parses to a value without an
\* array ignorePaths; it returns the parsed value only when ignorePaths is
\* an array, and then returns it.
ConfigFallback ==
    config # <<>> =>
        LET r == config[1]
            parsedArray == /\ configFile.exists /\ configFile.readable /\ configFile.json
                           /\ HasArrayIgnorePaths(configFile.value)
        IN  /\ ~r.threw
            /\ (~configFile.exists \/ ~configFile.json
                    \/ ~HasArrayIgnorePaths(configFile.value))
                   => r.from = "emptyConfig" /\ r.value = emptyConfig
            /\ r.from = "parsedConfig" => parsedArray /\ r.value = configFile.value
            /\ parsedArray => r.from = "parsedConfig"

\* the file parses to an object whose ignorePaths is null, and the empty
\* configuration came back
ConfigFallbackWitness ==
    /\ config # <<>>
    /\ configFile.json /\ configFile.value.type = "object"
    /\ configFile.value.hasIgnorePaths /\ configFile.value.ignorePaths.type = "null"
    /\ config[1].from = "emptyConfig"

\* C9: in each bucket the relative paths ascend; the sorted snapshots hold
\* what was collected, every path as often as it was collected;
\* onlyInFirst and inBoth follow the order of the first sorted snapshot and
\* onlyInSecond that of the second.
BucketsAscending ==
    Returned =>
        LET c == last[1]
            d == c.out.returned[1]
            s1 == c.out.paths1
            s2 == c.out.paths2
        IN  /\ Ascending(Stripped(c.dir1, d.onlyInFirst))
            /\ Ascending(Stripped(c.dir2, d.onlyInSecond))
            /\ Ascending(Stripped(c.dir1, d.inBoth))
            /\ Ascending(s1) /\ Ascending(s2)
            /\ Len(s1) = Len(c.out.collected1) /\ Len(s2) = Len(c.out.collected2)
            /\ \A x \in Range(c.out.collected1) : Count(s1, x) = Count(c.out.collected1, x)
            /\ \A x \in Range(c.out.collected2) : Count(s2, x) = Count(c.out.collected2, x)
            /\ Stripped(c.dir1, d.onlyInFirst) = SelectSeq(s1, LAMBDA x : x \notin Range(s2))
            /\ Stripped(c.dir1, d.inBoth) = SelectSeq(s1, LAMBDA x : x \in Range(s2))
            /\ Stripped(c.dir2, d.onlyInSecond) = SelectSeq(s2, LAMBDA x : x \notin Range(s1))

\* the filesystem listed the first root's files out of order and two of
\* them came back in onlyInFirst
BucketsAscendingWitness ==
    /\ Returned
    /\ last[1].out.collected1 # last[1].out.paths1
    /\ Len(last[1].out.returned[1].onlyInFirst) >= 2

\* C10: testing paths leaves the caller's matchers as they were, and the
\* snapshot of dir2 is the one a traversal of dir2 alone, with the matchers
\* as given, collects.
MatchersReadOnly ==
    Called =>
        LET c == last[1]
            alone == collectPaths(c.dir2, c.dir2,
                         [NoCalls EXCEPT !.pats = regexPatterns(c.given)])
        IN  /\ c.out.pats = c.given
            /\ c.out.returned # <<>> => c.out.paths2 = sort(alone.paths)

====
